---- MODULE Spec2Model ----
(***************************************************************************)
(* A model of the NAPALM driver for Cumulus Linux                          *)
(* (src/napalm_cumulus/cumulus.py, class CumulusDriver).                    *)
(*                                                                         *)
(* The driver is single-threaded: one operation runs at a time and talks   *)
(* to the device through self.device.send_command.  The device's answers   *)
(* are the environment; they are drawn with \E from small sets.            *)
(*                                                                         *)
(* Text is modelled as sequences: an output is a sequence of lines, a line *)
(* a sequence of whitespace separated tokens, a speed string a sequence of *)
(* characters.  Python floats are modelled as integers (-1.0 as -1).       *)
(***************************************************************************)
EXTENDS Integers, Sequences, FiniteSets, TLC

VARIABLES
    loaded,            \* self.loaded
    changed,           \* self.changed
    history,           \* the configuration calls made so far, in order (history variable)
    call,              \* the operation in progress ("none" before any call)
    pc,                \* position inside the operation
    input,             \* the arguments and device answers of an atomic operation
    sent,              \* every command handed to the device, in order
    ret,               \* how the operation ended: returned value or raised exception
    ping_result,       \* ping: the local dict ping_result
    output,            \* get_*: the raw answer to the first JSON command
    output_json,       \* get_*: the parsed JSON document
    current_time,      \* get_interfaces: the parsed answer to the date command
    interfaces,        \* get_interfaces: the result dict being built
    block,             \* get_interfaces: the block of the current loop round
    snmp_values,       \* get_snmp_information: the accumulator dict
    dev_bgp_summary,   \* get_bgp_neighbors: the parsed summary document
    dev_bgp_neighbors, \* get_bgp_neighbors: the parsed neighbor document
    bgp_neighbors,     \* get_bgp_neighbors: the result dict being built
    bgp_neighbor,      \* get_bgp_neighbors: the record of the current peer
    afi,               \* get_bgp_neighbors: the summary family of the outer loop
    peer,              \* get_bgp_neighbors: the peer of the middle loop
    afisLeft,          \* get_bgp_neighbors: the families the outer loop has to visit
    peersLeft,         \* get_bgp_neighbors: the peers the middle loop has to visit
    afsLeft            \* get_bgp_neighbors: the families the inner loop has to visit

ifaceVars == <<output, output_json, current_time, interfaces, block>>

bgpVars == <<dev_bgp_summary, dev_bgp_neighbors, bgp_neighbors, bgp_neighbor,
             afi, peer, afisLeft, peersLeft, afsLeft>>

vars == <<loaded, changed, history, call, pc, input, sent, ret, ping_result,
          output, output_json, current_time, interfaces, block, snmp_values,
          dev_bgp_summary, dev_bgp_neighbors, bgp_neighbors, bgp_neighbor,
          afi, peer, afisLeft, peersLeft, afsLeft>>

----------------------------------------------------------------------------
(* Outcomes of a call, and the command log.                                *)

NoOutcome == [kind |-> "running"]

\* `return v`
Returned(v) == [kind |-> "return", isNone |-> FALSE, value |-> v]

\* the function body ends without reaching a return statement: Python
\* hands None to the caller
ReturnedNone == [kind |-> "return", isNone |-> TRUE]

\* an exception leaves the operation
Raised(e) == [kind |-> "raise", exc |-> e]

\* self._send_command(command): one entry of the command log
ViaSendCommand(command) == [via |-> "_send_command", command |-> command]

\* self.device.send_command(command), the raw channel
ViaDevice(command) == [via |-> "device.send_command", command |-> command]

\* how many times `command` was handed to the device
RECURSIVE CountSent(_, _)
CountSent(log, command) ==
    IF log = <<>> THEN 0
    ELSE (IF Head(log).command = command THEN 1 ELSE 0)
         + CountSent(Tail(log), command)

\* the set of all sequences over S of length lo..hi
SeqsOf(S, lo, hi) == UNION {[1..n -> S] : n \in lo..hi}

----------------------------------------------------------------------------
(* ping                                                                    *)

MaxPingLines == 3

UnknownHostLine == <<"ping:", "Unknown", "host", "nohost">>
StatsLine(s, r) == <<s, "packets", "transmitted,", r, "received,", "loss">>
RttLine == <<"rtt", "min/avg/max/mdev", "=", "1.0/2.0/3.0/0.5", "ms">>
ReplyLine == <<"64", "bytes", "from", "10.0.0.1:", "ttl=64", "time=1.0", "ms">>
BlankLine == <<>>

PingLines ==
    {UnknownHostLine, StatsLine("2", "2"), StatsLine("2", "1"),
     RttLine, ReplyLine, BlankLine}

\* output_ping.split("\n") never is the empty list
PingOutputs == SeqsOf(PingLines, 1, MaxPingLines)

\* `"Unknown host" in output_ping`: the two words, one space apart
HasUnknownHost(out) ==
    \E i \in 1..Len(out) : \E j \in 1..(Len(out[i]) - 1) :
        out[i][j] = "Unknown" /\ out[i][j + 1] = "host"

\* `"transmitted" in line`
HasTransmitted(line) ==
    \E j \in 1..Len(line) : line[j] \in {"transmitted", "transmitted,"}

\* int(token): the tokens of the model that are decimal integers
IntTokens == {"1", "2", "64"}
IntOf(tok) == CASE tok = "1" -> 1 [] tok = "2" -> 2 [] tok = "64" -> 64

\* re.search(r"([\d\.]+)/([\d\.]+)/([\d\.]+)/([\d\.]+)", line); the floats
\* are kept in thousandths
RttMatch(line) == \E j \in 1..Len(line) : line[j] = "1.0/2.0/3.0/0.5"
RttOf(line) ==
    IF RttMatch(line)
    THEN [rtt_min |-> 1000, rtt_avg |-> 2000, rtt_max |-> 3000, rtt_stddev |-> 500]
    ELSE [rtt_min |-> "None", rtt_avg |-> "None", rtt_max |-> "None",
          rtt_stddev |-> "None"]

\* re.search(r"from\s([\d\.]+).*time=([\d\.]+)", res)
ReplyMatch(line) ==
    \E j \in 1..(Len(line) - 1) :
        /\ line[j] = "from" /\ line[j + 1] = "10.0.0.1:"
        /\ \E k \in (j + 2)..Len(line) : line[k] = "time=1.0"

RECURSIVE PingResponses(_)
PingResponses(out) ==
    IF out = <<>> THEN <<>>
    ELSE (IF ReplyMatch(Head(out))
          THEN <<[ip_address |-> "10.0.0.1", rtt |-> 1000]>> ELSE <<>>)
         \o PingResponses(Tail(out))

\* lines 291-296: packet_info[-2] when it has "transmitted", else
\* packet_info[-3]; "IndexError" when the list is too short
PacketInfoLine(out) ==
    IF Len(out) < 2 THEN "IndexError"
    ELSE IF HasTransmitted(out[Len(out) - 1]) THEN out[Len(out) - 1]
    ELSE IF Len(out) < 3 THEN "IndexError"
    ELSE out[Len(out) - 2]

\* lines 308-311: the last line when it is not empty, else the one before
RttInfoLine(out) ==
    IF Len(out[Len(out)]) > 0 THEN out[Len(out)] ELSE out[Len(out) - 1]

\* lines 277-351: what ping hands to its caller on the answer `out`.  The
\* `return ping_result` of line 351 is inside the else branch of line 287.
PingSuccess(out) ==
    LET info == PacketInfoLine(out) IN
    IF Len(out) < 2 \/ (~HasTransmitted(out[Len(out) - 1]) /\ Len(out) < 3)
    THEN Raised("IndexError")
    ELSE IF Len(info) < 4 THEN Raised("IndexError")
    ELSE IF info[1] \notin IntTokens \/ info[4] \notin IntTokens
    THEN Raised("ValueError")
    ELSE LET sentN == IntOf(info[1])
             received == IntOf(info[4])
             rtt == RttOf(RttInfoLine(out))
         IN Returned([success |->
                [probes_sent |-> sentN,
                 packet_loss |-> sentN - received,
                 rtt_min |-> rtt.rtt_min,
                 rtt_max |-> rtt.rtt_max,
                 rtt_avg |-> rtt.rtt_avg,
                 rtt_stddev |-> rtt.rtt_stddev,
                 results |-> PingResponses(out)]])

PingOutcome(out) ==
    IF HasUnknownHost(out) THEN ReturnedNone ELSE PingSuccess(out)

\* lines 280-286 and 339: the dict ping_result when the function ends
PingResultDict(out) ==
    IF HasUnknownHost(out) THEN [error |-> "Unknown host"]
    ELSE LET o == PingSuccess(out) IN
         IF o.kind = "return" THEN o.value ELSE <<>>

----------------------------------------------------------------------------
(* get_interfaces._convert_speed: a speed string is a sequence of          *)
(* characters.                                                             *)

MaxSpeedLen == 4

SpeedChars == {"0", "1", "M", "G", "a"}
Digits == {"0", "1"}

SpeedStrings == SeqsOf(SpeedChars, 0, MaxSpeedLen)

DigitValue(c) == IF c = "1" THEN 1 ELSE 0

\* str.endswith(c)
EndsWith(s, c) == Len(s) > 0 /\ s[Len(s)] = c

\* str.strip(c): drops every leading and every trailing c
RECURSIVE LStrip(_, _)
LStrip(s, c) ==
    IF s # <<>> /\ Head(s) = c THEN LStrip(Tail(s), c) ELSE s

RECURSIVE RStrip(_, _)
RStrip(s, c) ==
    IF s # <<>> /\ s[Len(s)] = c THEN RStrip(SubSeq(s, 1, Len(s) - 1), c) ELSE s

Strip(s, c) == RStrip(LStrip(s, c), c)

\* str.isdigit(): not empty and every character a digit
IsDigit(s) == s # <<>> /\ \A i \in 1..Len(s) : s[i] \in Digits

\* int(s) of a string of digits
RECURSIVE IntOfDigits(_)
IntOfDigits(s) ==
    IF s = <<>> THEN 0
    ELSE 10 * IntOfDigits(SubSeq(s, 1, Len(s) - 1)) + DigitValue(s[Len(s)])

\* lines 380-385
_convert_speed(speed) ==
    IF EndsWith(speed, "M") /\ IsDigit(Strip(speed, "M"))
    THEN IntOfDigits(Strip(speed, "M"))
    ELSE IF EndsWith(speed, "G") /\ IsDigit(Strip(speed, "G"))
    THEN IntOfDigits(Strip(speed, "G")) * 1000
    ELSE -1

----------------------------------------------------------------------------
(* cli                                                                     *)

MaxCliCommands == 3

CliCommands == {"net show version", "net show hostname", "uptime"}
CliOutputs == {"out-a", "out-b"}

\* the values cli may be called with: lists of commands, and values of
\* other types (a bare string, a tuple of commands, None)
CliArguments ==
    {[type |-> "list", items |-> c] : c \in SeqsOf(CliCommands, 0, MaxCliCommands)}
    \cup {[type |-> "str", items |-> <<"uptime">>],
          [type |-> "tuple", items |-> <<"uptime", "net show version">>],
          [type |-> "NoneType", items |-> <<>>]}

\* lines 644-646: cli_output[command] = output, a later assignment to the
\* same key replaces the earlier one
RECURSIVE CliOutput(_, _)
CliOutput(items, outs) ==
    IF items = <<>> THEN <<>>
    ELSE LET n == Len(items) IN
         (items[n] :> outs[n])
             @@ CliOutput(SubSeq(items, 1, n - 1), SubSeq(outs, 1, n - 1))

\* lines 644-645: the commands handed to self.device.send_command
CliSent(items) == [i \in 1..Len(items) |-> ViaDevice(items[i])]

\* lines 641-642: `type(commands) is not list`
CliAcceptsAnyType(commands) == FALSE
CliRejects(commands) == commands.type # "list"

----------------------------------------------------------------------------
(* get_snmp_information: the answer is a sequence of lines, a line a       *)
(* sequence of tokens; a string built by "+" is the sequence of its parts. *)

MaxSnmpLines == 3

SnmpDirectives == {"readonly-community", "readonly-community-v6"}
SnmpCommunities == {"PUB", "PRIV"}
SnmpAcls == {"any", "10.0.0.1", "10.0.0.2"}

CommunityLines ==
    {<<d, c, "access", a>> : d \in SnmpDirectives, c \in SnmpCommunities,
                             a \in SnmpAcls}

SnmpLines ==
    CommunityLines
    \cup {<<"readonly-community", "PUB">>,
          <<"system-contact", "NOC">>,
          <<"system-location", "4th-floor">>,
          <<"system-name", "leaf1">>}

SnmpOutputs == SeqsOf(SnmpLines, 0, MaxSnmpLines)

\* lines 581-584: `"readonly-community" in line or "readonly-community-v6" in line`
IsCommunityLine(line) == \E j \in 1..Len(line) : line[j] \in SnmpDirectives

\* re.search(r".*<keyword>.(\D.*)", line): the text after the keyword and
\* one more character, when it does not begin with a digit
StartsWithDigit(tok) == tok \in {"4th-floor"}

SystemMatch(line, keyword) ==
    \E j \in 1..(Len(line) - 1) :
        line[j] = keyword /\ ~StartsWithDigit(line[j + 1])

SystemGroup(line, keyword) ==
    LET j == CHOOSE k \in 1..(Len(line) - 1) :
                 line[k] = keyword /\ ~StartsWithDigit(line[k + 1])
    IN SubSeq(line, j + 1, Len(line))

\* lines 587-588
NormalizeAcl(acl) == IF acl = "any" THEN "N/A" ELSE acl

\* lines 589-616: the community dict after one community line
MergeCommunityOverwrite(community, community_list, value, acl) ==
    (value :> [acl |-> <<acl>>, mode |-> "ro"]) @@ community
MergeCommunity(community, community_list, value, acl) ==
    IF \E i \in 1..Len(community_list) : community_list[i] = value
    THEN (value :> [acl |-> community[value].acl \o <<",", acl>>, mode |-> "ro"])
             @@ community
    ELSE (value :> [acl |-> <<acl>>, mode |-> "ro"]) @@ community

\* line 612
AppendCommunity(community_list, value) ==
    IF \E i \in 1..Len(community_list) : community_list[i] = value
    THEN community_list
    ELSE Append(community_list, value)

\* lines 575-579: the locals before the scan
SnmpStart ==
    [failed |-> FALSE, community_list |-> <<>>, community |-> <<>>,
     contact |-> <<>>, system_name |-> <<>>, location |-> <<>>]

\* lines 580-631: one round of the scan; split()[1] or split()[3] of a
\* community line with fewer than four tokens raises IndexError
SnmpStep(acc, line) ==
    IF acc.failed THEN acc
    ELSE IF IsCommunityLine(line) /\ Len(line) < 4
    THEN [acc EXCEPT !.failed = TRUE]
    ELSE LET a1 == IF IsCommunityLine(line)
                   THEN [acc EXCEPT
                            !.community = MergeCommunity(acc.community,
                                acc.community_list, line[2], NormalizeAcl(line[4])),
                            !.community_list =
                                AppendCommunity(acc.community_list, line[2])]
                   ELSE acc
             a2 == IF SystemMatch(line, "system-contact")
                   THEN [a1 EXCEPT !.contact = SystemGroup(line, "system-contact")]
                   ELSE a1
             a3 == IF SystemMatch(line, "system-location")
                   THEN [a2 EXCEPT !.location = SystemGroup(line, "system-location")]
                   ELSE a2
         IN IF SystemMatch(line, "system-name")
            THEN [a3 EXCEPT !.system_name = SystemGroup(line, "system-name")]
            ELSE a3

RECURSIVE SnmpScan(_)
SnmpScan(lines) ==
    IF lines = <<>> THEN SnmpStart
    ELSE SnmpStep(SnmpScan(SubSeq(lines, 1, Len(lines) - 1)), lines[Len(lines)])

\* lines 632-637
SnmpInformation(acc) ==
    [community |-> acc.community, contact |-> acc.contact,
     chassis_id |-> acc.system_name, location |-> acc.location]

----------------------------------------------------------------------------
(* The answer to "net show interface all json", shared by get_facts,       *)
(* get_lldp_neighbors, get_interfaces and get_interfaces_ip.  A raw answer *)
(* is either the text of a JSON document or text that is no JSON.          *)

JsonText(doc) == [json |-> TRUE, value |-> doc]
NotJson == [json |-> FALSE]

InterfaceCommand == "net show interface all json"

IfNames == {"swp1", "SWP2"}

\* a JSON null, and a JSON array
Null == [null |-> TRUE]
Array(items) == [null |-> FALSE, items |-> items]

IfaceData ==
    {[linkstate |-> "UP", speed |-> <<"1", "G">>,
      iface_obj |-> [description |-> "uplink", mac |-> "44:38:39:00:00:01",
                     mtu |-> 9216,
                     lldp |-> Array(<<[adj_hostname |-> "spine1",
                                       adj_port |-> "swp5"]>>),
                     ip_address |-> [allentries |->
                                       <<<<"10.0.0.1", "/", "24">>,
                                         <<"2001:db8::1", "/", "64">>>>]]],
     [linkstate |-> "ADMDN", speed |-> <<"a">>,
      iface_obj |-> [description |-> "", mac |-> "44:38:39:00:00:02",
                     mtu |-> 1500,
                     lldp |-> Null,
                     ip_address |-> [allentries |-> <<>>]]]}

InterfaceDocs == UNION {[S -> IfaceData] : S \in SUBSET IfNames}

InterfaceAnswers == {NotJson} \cup {JsonText(doc) : doc \in InterfaceDocs}

\* str.lower() on the names of the model
Lower(name) ==
    CASE name = "SWP2" -> "swp2"
      [] name = "IPv4 Unicast" -> "ipv4 unicast"
      [] name = "IPv6 Unicast" -> "ipv6 unicast"
      [] name = "L2VPN EVPN" -> "l2vpn evpn"
      [] OTHER -> name

----------------------------------------------------------------------------
(* get_lldp_neighbors, get_interfaces_ip, get_facts                        *)

\* lines 353-360
_get_interface_neighbors(neighbors_list) ==
    [i \in 1..Len(neighbors_list) |->
        [hostname |-> neighbors_list[i].adj_hostname,
         port |-> neighbors_list[i].adj_port]]

\* lines 372-377
LldpNeighbors(intf_output) ==
    [interface \in {i \in DOMAIN intf_output :
                       ~intf_output[i].iface_obj.lldp.null} |->
        _get_interface_neighbors(intf_output[interface].iface_obj.lldp.items)]

\* ipaddress.ip_interface(ip_address).version
IpVersion(ip) == IF ip = "2001:db8::1" THEN 6 ELSE 4

\* int(prefix)
PrefixLength(prefix) == IF prefix = "64" THEN 64 ELSE 24

\* lines 478-484: the addresses of one interface of one family
AddressesOf(allentries, version) ==
    [ip \in {allentries[i][1] : i \in {k \in 1..Len(allentries) :
                                 IpVersion(allentries[k][1]) = version}} |->
        LET i == CHOOSE k \in 1..Len(allentries) : allentries[k][1] = ip
        IN [prefix_length |-> PrefixLength(allentries[i][3])]]

FamiliesOf(allentries) ==
    [ip_ver \in {IF IpVersion(allentries[i][1]) = 6 THEN "ipv6" ELSE "ipv4" :
                    i \in 1..Len(allentries)} |->
        AddressesOf(allentries, IF ip_ver = "ipv6" THEN 6 ELSE 4)]

\* lines 475-486
InterfacesIp(doc) ==
    [interface \in {i \in DOMAIN doc :
                       doc[i].iface_obj.ip_address.allentries # <<>>} |->
        FamiliesOf(doc[interface].iface_obj.ip_address.allentries)]

\* the answer to "net show system json"
SystemDoc ==
    [uptime |-> "0:01:40", hostname |-> "leaf1", osversion |-> "3.7.2",
     vendor |-> "Cumulus", model |-> "VX", serial |-> "0001"]

SystemAnswers == {NotJson, JsonText(SystemDoc)}

\* string_parsers.convert_uptime_string_seconds on the uptime of the model
UptimeSeconds(uptime) == IF uptime = "0:01:40" THEN 100 ELSE 0

\* lines 157-178: interface_list holds the keys of the interfaces document
\* (their natural sort order is napalm's string_parsers.sorted_nicely)
Facts(system, doc) ==
    [uptime |-> UptimeSeconds(system.uptime),
     vendor |-> system.vendor,
     model |-> system.model,
     hostname |-> system.hostname,
     os_version |-> system.osversion,
     serial_number |-> system.serial,
     fqdn |-> system.hostname,
     interface_list |-> DOMAIN doc]

----------------------------------------------------------------------------
(* get_interfaces                                                          *)

MaxBlockLines == 3

SecondsPerDay == 86400

\* a timestamp is the pair of its date token and its time token
DayOf(date) ==
    CASE date = "2020/01/01" -> 18262
      [] date = "2020/01/02" -> 18263

SecondOf(time) ==
    CASE time = "10:00:00.00" -> 36000
      [] time = "09:00:00.00" -> 32400
      [] time = "10:00:10" -> 36010

\* datetime.strptime(text, "%Y/%m/%d %H:%M:%S[.%f]") in seconds since
\* datetime(1970, 1, 1); the fractions of the model are zero
Strptime(ts) == DayOf(ts[1]) * SecondsPerDay + SecondOf(ts[2])

\* the answers to the date command: a date, or text strptime refuses
DateAnswers == {<<"2020/01/02", "10:00:10">>, <<"date:", "invalid">>}
IsDate(ans) == ans = <<"2020/01/02", "10:00:10">>

\* the answers to "sudo vtysh -c 'show version'", as lines
DaemonAnswers ==
    {<<"FRRouting 4.0 (leaf1).">>,
     <<"Exiting: failed to connect to any daemons.">>,
     <<"vtysh: warning", "Exiting: failed to connect to any daemons.">>}

\* line 414
DaemonNeverFailed(daemon_check) == FALSE
DaemonFailed(daemon_check) ==
    \E i \in 1..Len(daemon_check) :
        daemon_check[i] = "Exiting: failed to connect to any daemons."

\* the lines of a block of the "show interface" dump
StateLine(name, state) == <<name, "is", state>>
UpsLine(last) == <<"Link", "ups:", "1", "last:">> \o last
DownsLine(last) == <<"Link", "downs:", "1", "last:">> \o last
OtherLine == <<"index", "3", "metric", "0">>

Never == <<"(never)">>
T1 == <<"2020/01/01", "10:00:00.00">>
T2 == <<"2020/01/02", "09:00:00.00">>

BlockLines ==
    {StateLine("swp1", "up"), StateLine("SWP2", "down"),
     UpsLine(Never), UpsLine(T1), DownsLine(Never), DownsLine(T2), OtherLine}

\* the blocks re.split cuts the dump into (filter(None, ...) drops the
\* empty ones)
Blocks == SeqsOf(BlockLines, 1, MaxBlockLines)

\* `a b` in l, for two words one space apart
HasWords(l, a, b) ==
    \E j \in 1..(Len(l) - 1) : l[j] = a /\ l[j + 1] = b

\* " ".join(l.split()[-2:])
LastTwo(l) == SubSeq(l, Len(l) - 1, Len(l))

\* `"never" in text`
HasNever(text) == \E j \in 1..Len(text) : text[j] \in {"never", "(never)"}

\* None, for iface, and for last_up and last_down
NoIface == "None"
NoStamp == <<>>

\* lines 425-436: the scan of the lines of a block
RECURSIVE ScanLines(_, _)
ScanLines(lines, st) ==
    IF lines = <<>> THEN st
    ELSE LET l == Head(lines) IN
         IF HasWords(l, "is", "up") \/ HasWords(l, "is", "down")
         THEN ScanLines(Tail(lines), [st EXCEPT !.iface = Lower(l[1])])
         ELSE IF HasWords(l, "Link", "ups:")
         THEN ScanLines(Tail(lines), [st EXCEPT !.last_up = LastTwo(l)])
         ELSE IF HasWords(l, "Link", "downs:")
         THEN [st EXCEPT !.last_down = LastTwo(l)]
         ELSE ScanLines(Tail(lines), st)

ParseBlock(lines) ==
    ScanLines(lines, [iface |-> NoIface, last_up |-> NoStamp,
                      last_down |-> NoStamp])

\* lines 448-457
StampTime(stamp) == IF HasNever(stamp) THEN 0 ELSE Strptime(stamp)

\* lines 459-461: timedelta.seconds is the seconds field of the
\* normalised (days, seconds, microseconds) difference
LastFlap(now, last_up, last_down) ==
    LET up == StampTime(last_up)
        down == StampTime(last_down)
        most_recent == IF up > down THEN up ELSE down
    IN (now - most_recent) % SecondsPerDay

\* dict item assignment d[key][field] = value
SetField(d, key, field, value) ==
    [d EXCEPT ![key] = (field :> value) @@ d[key]]

\* lines 401-409
InterfaceRecord(iface_data) ==
    [description |-> iface_data.iface_obj.description,
     is_enabled |-> iface_data.linkstate # "ADMDN",
     is_up |-> iface_data.linkstate = "UP",
     mac_address |-> iface_data.iface_obj.mac,
     mtu |-> iface_data.iface_obj.mtu,
     speed |-> _convert_speed(iface_data.speed)]

InterfaceRecords(doc) == [i \in DOMAIN doc |-> InterfaceRecord(doc[i])]

\* lines 415-416
AllNeverFlapped(ifs) ==
    [i \in DOMAIN ifs |-> ("last_flapped" :> -1) @@ ifs[i]]

\* line 438: `not interfaces.get(iface)`
UnknownInterface(ifs, iface) == iface \notin DOMAIN ifs

\* lines 437-461: the body of the loop over the blocks, after the scan;
\* `"never" in i` raises TypeError when i is None
BlockOutcome(ifs, now, lines) ==
    LET p == ParseBlock(lines) IN
    IF UnknownInterface(ifs, p.iface)
    THEN [failed |-> FALSE, interfaces |-> ifs]
    ELSE IF p.last_down = NoStamp /\ p.last_up = NoStamp
    THEN [failed |-> FALSE,
          interfaces |-> SetField(ifs, p.iface, "last_flapped", -1)]
    ELSE IF p.last_down = NoStamp \/ p.last_up = NoStamp
    THEN [failed |-> TRUE, interfaces |-> ifs]
    ELSE IF HasNever(p.last_up) /\ HasNever(p.last_down)
    THEN [failed |-> FALSE,
          interfaces |-> SetField(ifs, p.iface, "last_flapped", -1)]
    ELSE [failed |-> FALSE,
          interfaces |-> SetField(ifs, p.iface, "last_flapped",
                                  LastFlap(now, p.last_up, p.last_down))]

----------------------------------------------------------------------------
(* get_bgp_neighbors                                                       *)

SummaryCommand == "net show bgp summary json"
NeighborCommand == "net show bgp neighbor json"

Peers == {"10.0.0.1", "10.0.0.2"}

\* line 510
supported_afis == {"ipv4 unicast", "ipv6 unicast"}

\* the JSON object {}
EmptyObject == <<>>

\* one family of the summary document
SummaryEntry(S) ==
    [routerId |-> "10.255.0.1",
     peers |-> [p \in S |-> [prefixReceivedCount |-> 5]]]

SummaryEntries(a) ==
    IF a = "l2vpn evpn" THEN {SummaryEntry(Peers)}
    ELSE {EmptyObject} \cup {SummaryEntry(S) : S \in (SUBSET Peers) \ {{}}}

SummaryAfis == {"ipv4 unicast", "ipv6 unicast", "l2vpn evpn"}

SummaryDocs ==
    UNION {{f \in [A -> UNION {SummaryEntries(a) : a \in A}] :
               \A a \in A : f[a] \in SummaryEntries(a)} : A \in SUBSET SummaryAfis}

SummaryAnswers == {NotJson} \cup {JsonText(doc) : doc \in SummaryDocs}

\* the address families of a neighbor
NeighborAfs ==
    {{"IPv4 Unicast"}, {"IPv4 Unicast", "IPv6 Unicast"},
     {"IPv4 Unicast", "L2VPN EVPN"}}

AddressFamilyInfo(S) == [af \in S |-> [acceptedPrefixCounter |-> 4]]

\* one neighbor of the neighbor document; bgpTimerUpMsec and adminShutDown
\* are optional keys
NeighborCore(state, S) ==
    [localAs |-> 65001, remoteAs |-> 65002, remoteRouterId |-> "10.255.0.2",
     nbrDesc |-> "spine", bgpState |-> state,
     addressFamilyInfo |-> AddressFamilyInfo(S)]

NeighborDetails ==
    UNION {{NeighborCore("Established", S) @@ [bgpTimerUpMsec |-> 5500],
            NeighborCore("Established", S),
            NeighborCore("Idle", S) @@ [bgpTimerUpMsec |-> 5500],
            NeighborCore("Established", S)
                @@ [bgpTimerUpMsec |-> 5500, adminShutDown |-> TRUE],
            NeighborCore("Idle", S)
                @@ [bgpTimerUpMsec |-> 5500, adminShutDown |-> TRUE]}
           : S \in NeighborAfs}

NeighborDocs == UNION {[S -> NeighborDetails] : S \in SUBSET Peers}

NeighborAnswers == {NotJson} \cup {JsonText(doc) : doc \in NeighborDocs}

\* the answers to an "advertised-routes" command: the device may put the
\* stray text "n\n" in front of the document
AdvertisedAnswers ==
    {[stray |-> b, body |-> t] :
        b \in BOOLEAN, t \in {NotJson, JsonText([totalPrefixCounter |-> 3])}}

\* line 552: bgp_peer_advertised_routes.replace("n\n", "")
StripStray(answer) == answer.body

\* lines 547-550
AdvertisedCommand(af, p) ==
    CASE af = "ipv4 unicast" /\ p = "10.0.0.1" ->
           "net show bgp ipv4 unicast neighbor 10.0.0.1 advertised-routes json"
      [] af = "ipv4 unicast" /\ p = "10.0.0.2" ->
           "net show bgp ipv4 unicast neighbor 10.0.0.2 advertised-routes json"
      [] af = "ipv6 unicast" /\ p = "10.0.0.1" ->
           "net show bgp ipv6 unicast neighbor 10.0.0.1 advertised-routes json"
      [] af = "ipv6 unicast" /\ p = "10.0.0.2" ->
           "net show bgp ipv6 unicast neighbor 10.0.0.2 advertised-routes json"

\* line 568: af.split()[0]
FirstWord(af) == IF af = "ipv4 unicast" THEN "ipv4" ELSE "ipv6"

\* int(x / 1000): true division, then truncation towards zero
IntDiv1000(x) == IF x >= 0 THEN x \div 1000 ELSE -((-x) \div 1000)

\* dict.get(key, default) for the optional keys
HasKey(d, key) == key \in DOMAIN d

\* lines 532-535
IsEnabled(detail) == ~(HasKey(detail, "adminShutDown") /\ detail.adminShutDown)

\* lines 525-531 and 538: the uptime of a peer; "" / 1000 raises TypeError
UptimeFails(detail) ==
    detail.bgpState = "Established" /\ ~HasKey(detail, "bgpTimerUpMsec")

PeerUptime(detail) ==
    IF detail.bgpState = "Established"
    THEN IntDiv1000(detail.bgpTimerUpMsec)
    ELSE IntDiv1000(-1)

\* lines 521-539
PeerRecord(detail) ==
    [local_as |-> detail.localAs,
     remote_as |-> detail.remoteAs,
     remote_id |-> detail.remoteRouterId,
     description |-> IF HasKey(detail, "nbrDesc") THEN detail.nbrDesc ELSE "",
     is_up |-> detail.bgpState = "Established",
     is_enabled |-> IsEnabled(detail),
     uptime |-> PeerUptime(detail),
     address_family |-> <<>>]

\* lines 557-560: the value a counter is given when the peer is disabled
KeepWhenDisabled(is_enabled, counter) == counter
ForceWhenDisabled(is_enabled, counter) == IF ~is_enabled THEN -1 ELSE counter

\* lines 558 and 561-563: dev_bgp_summary[af]["peers"][peer] raises KeyError
SummaryLacks(summary, af, p) ==
    \/ af \notin DOMAIN summary
    \/ "peers" \notin DOMAIN summary[af]
    \/ p \notin DOMAIN summary[af].peers

\* line 516
SkippedAfi(summary, a) == Lower(a) \notin supported_afis \/ DOMAIN summary[a] = {}

----------------------------------------------------------------------------
(* get_arp_table: the answer to "arp -n" is a list of lines, each line the  *)
(* list of its whitespace-separated tokens (line.split()).                  *)

MaxArpLines == 3

ArpHeader == <<"Address", "HWtype", "HWaddress", "Flags", "Mask", "Iface">>

ZeroMac == "00:00:00:00:00:00"

\* the lines of an answer: resolved entries, an unresolved entry, a line cut
\* after its second token and an empty line
ArpLines ==
    {<<"10.129.2.254", "ether", "00:50:56:97:af:b1", "C", "eth0">>,
     <<"192.168.1.134", "(incomplete)", "eth1">>,
     <<"192.168.1.1", "ether", "00:50:56:ba:26:7f", "C", "eth1">>,
     <<"192.168.1.3", "ether">>,
     <<>>}

\* output.split("\n"): at least one line, the first is dropped unread
ArpOutputs ==
    {<<first>> \o rest :
        first \in {ArpHeader, <<"192.168.1.1", "ether", "00:50:56:ba:26:7f", "C", "eth1">>},
        rest \in SeqsOf(ArpLines, 0, MaxArpLines)}

ArpVrfs == {"", "mgmt"}

\* no token is taken for an unresolved entry
ContainsNoIncomplete(token) == FALSE
\* line 201: `"incomplete" in line[1]`
ContainsIncomplete(token) == token \in {"(incomplete)", "<incomplete>"}

\* lines 201 and 204 index the token list: IndexError when the token is missing
ArpLineFails(line) ==
    \/ Len(line) < 2
    \/ (~ContainsIncomplete(line[2]) /\ Len(line) < 3)

\* lines 201-208: the entry of one line
ArpEntry(line) ==
    [interface |-> line[Len(line)],
     mac       |-> IF ContainsIncomplete(line[2]) THEN ZeroMac ELSE line[3],
     ip        |-> line[1],
     age       |-> 0]

\* lines 197-209: the loop over the lines, stopped by the first IndexError
RECURSIVE ArpScan(_, _)
ArpScan(lines, arp_table) ==
    IF lines = <<>> THEN [failed |-> FALSE, arp_table |-> arp_table]
    ELSE IF ArpLineFails(Head(lines))
         THEN [failed |-> TRUE, arp_table |-> arp_table]
         ELSE ArpScan(Tail(lines), Append(arp_table, ArpEntry(Head(lines))))

\* lines 195-209
ArpTable(out) == ArpScan(Tail(out), <<>>)

----------------------------------------------------------------------------
(* get_ntp_stats: the answer to "ntpq -np".  A line is its remote field,    *)
(* cut into the tally character (when there is one) and the address, and    *)
(* the fields that follow it.                                               *)

MaxNtpLines == 3

NtpHeader ==
    <<[remote |-> <<"remote">>,
       rest |-> <<"refid", "st", "t", "when", "poll", "reach", "delay", "offset", "jitter">>],
      [remote |-> <<"====">>, rest |-> <<>>]>>

\* the lines of an answer: the selected peer, a candidate that was never
\* heard, a peer without tally character, an empty line, a line without its
\* last field and a selected peer with an IPv6 address
NtpLines ==
    {[remote |-> <<"*", "116.91.118.97">>,
      rest |-> <<"133.243.238.244", "2", "u", "51", "64", "377", "5.436", "987971.", "1694.82">>],
     [remote |-> <<"+", "219.117.210.137">>,
      rest |-> <<".GPS.", "1", "u", "-", "64", "377", "17.586", "988068.", "1652.00">>],
     [remote |-> <<"133.130.120.204">>,
      rest |-> <<"133.243.238.164", "2", "u", "46", "64", "377", "7.717", "987996.", "1669.77">>],
     [remote |-> <<>>, rest |-> <<>>],
     [remote |-> <<"-", "10.0.0.9">>,
      rest |-> <<".INIT.", "16", "u", "-", "64", "0", "0.000", "0.000">>],
     [remote |-> <<"*", "2001:db8::1">>,
      rest |-> <<".GPS.", "1", "u", "17", "64", "377", "17.586", "988068.", "1652.00">>]}

\* output.split("\n"): the two header lines and the lines that follow
NtpOutputs == {NtpHeader \o rest : rest \in SeqsOf(NtpLines, 0, MaxNtpLines)}

\* line 226: len(ntp_info) > 0
NtpLineEmpty(ntp_info) == ntp_info.remote = <<>> /\ ntp_info.rest = <<>>

\* lines 227-229: the unpacking of ntp_info.split() into ten names
NtpFieldCount(ntp_info) ==
    (IF ntp_info.remote = <<>> THEN 0 ELSE 1) + Len(ntp_info.rest)

\* no peer is reported as the selected one
NeverSynchronized(remote) == FALSE
\* line 232: `"*" in remote`
Synchronized(remote) == \E i \in 1..Len(remote) : remote[i] = "*"

\* \d+\.\d+\.\d+\.\d+
IsDottedQuad(piece) ==
    piece \in {"116.91.118.97", "219.117.210.137", "133.130.120.204", "10.0.0.9"}

\* line 234: re.search(r"(\d+\.\d+\.\d+\.\d+)", remote) finds something
RemoteMatch(remote) == \E i \in 1..Len(remote) : IsDottedQuad(remote[i])

\* line 235: match.group(1), the leftmost dotted quad
RemoteIp(remote) ==
    remote[CHOOSE i \in 1..Len(remote) :
              /\ IsDottedQuad(remote[i])
              /\ \A j \in 1..(i - 1) : ~IsDottedQuad(remote[j])]

\* line 237
NtpWhen(when) == IF when # "-" THEN [str |-> when] ELSE [int |-> 0]

\* int(st), int(hostpoll), int(reachability)
NtpInt(token) ==
    CASE token = "0" -> 0
      [] token = "1" -> 1
      [] token = "2" -> 2
      [] token = "16" -> 16
      [] token = "64" -> 64
      [] token = "377" -> 377

\* float(delay), float(offset), float(jitter): the number the text denotes
NtpFloat(token) == [float |-> token]

\* lines 239-253
NtpPeer(ntp_info) ==
    [remote       |-> RemoteIp(ntp_info.remote),
     referenceid  |-> ntp_info.rest[1],
     synchronized |-> Synchronized(ntp_info.remote),
     stratum      |-> NtpInt(ntp_info.rest[2]),
     type         |-> ntp_info.rest[3],
     when         |-> NtpWhen(ntp_info.rest[4]),
     hostpoll     |-> NtpInt(ntp_info.rest[5]),
     reachability |-> NtpInt(ntp_info.rest[6]),
     delay        |-> NtpFloat(ntp_info.rest[7]),
     offset       |-> NtpFloat(ntp_info.rest[8]),
     jitter       |-> NtpFloat(ntp_info.rest[9])]

\* lines 225-254: the loop over the lines, stopped by the first exception
RECURSIVE NtpScan(_, _)
NtpScan(lines, ntp_stats) ==
    IF lines = <<>> THEN Returned(ntp_stats)
    ELSE IF NtpLineEmpty(Head(lines)) THEN NtpScan(Tail(lines), ntp_stats)
    ELSE IF NtpFieldCount(Head(lines)) # 10 THEN Raised("ValueError")
    ELSE IF ~RemoteMatch(Head(lines).remote) THEN Raised("AttributeError")
    ELSE NtpScan(Tail(lines), Append(ntp_stats, NtpPeer(Head(lines))))

\* line 222: output.split("\n")[2:]
NtpStats(out) == NtpScan(SubSeq(out, 3, Len(out)), <<>>)

----------------------------------------------------------------------------
(* The configuration session: load_merge_candidate, discard_config,         *)
(* compare_config, commit_config and rollback.                              *)

MaxConfigCalls == 4

ConfigCalls ==
    {"load_merge_candidate", "discard_config", "compare_config",
     "commit_config", "rollback"}

\* the Python values an argument of load_merge_candidate may have
PyNone == [type |-> "NoneType"]
Str(value) == [type |-> "str", value |-> value]
List(items) == [type |-> "list", items |-> items]

\* `not x`
Falsy(x) ==
    \/ x.type = "NoneType"
    \/ (x.type = "str" /\ x.value = "")
    \/ (x.type = "list" /\ x.items = <<>>)

\* the (filename, config) pairs of the calls
LoadArguments ==
    {[filename |-> PyNone, config |-> PyNone],
     [filename |-> PyNone, config |-> List(<<>>)],
     [filename |-> PyNone, config |-> Str("net add hostname leaf1")],
     [filename |-> PyNone,
      config |-> List(<<"net add hostname leaf1", "", "net add bogus">>)],
     [filename |-> Str("candidate.cfg"), config |-> PyNone],
     [filename |-> Str(""), config |-> Str("net add hostname leaf1")]}

\* what open(filename).readlines() finds: no such file, or the lines
Missing == [exists |-> FALSE]
FilesAt(filename) ==
    IF filename.type = "NoneType" THEN {Missing}
    ELSE IF filename.value = "" THEN {Missing}
    ELSE {Missing, [exists |-> TRUE, lines |-> <<"net add hostname leaf2">>]}

\* every call is accepted
LoadRejectsNothing(filename, config) == FALSE
\* line 96
LoadRejects(filename, config) == Falsy(filename) /\ Falsy(config)

\* list.filter: `[line for line in candidate if line]`
RECURSIVE NonEmpty(_)
NonEmpty(lines) ==
    IF lines = <<>> THEN <<>>
    ELSE IF Head(lines) = "" THEN NonEmpty(Tail(lines))
         ELSE <<Head(lines)>> \o NonEmpty(Tail(lines))

\* lines 101-110: the commands of the candidate
Candidate(filename, config, file) ==
    IF filename.type # "NoneType" THEN NonEmpty(file.lines)
    ELSE CASE config.type = "list" -> NonEmpty(config.items)
           [] config.type = "str" -> NonEmpty(<<config.value>>)
           [] config.type = "NoneType" -> <<>>

\* the answers of the device to a configuration command
ConfigAnswers == {"", "ERROR: Command not found."}

\* line 113: `"error" in output or "not found" in output`
MergeFails(cmd_output) == cmd_output = "ERROR: Command not found."

\* lines 111-116: the answers to the commands that are sent, the loop
\* ending at the first answer that reports a failure
AnswerRuns(candidate) ==
    {a \in SeqsOf(ConfigAnswers, 0, Len(candidate)) :
        /\ \A i \in 1..(Len(a) - 1) : ~MergeFails(a[i])
        /\ Len(a) < Len(candidate) => (Len(a) >= 1 /\ MergeFails(a[Len(a)]))}

\* the answers to "net pending": pieces of text, some of them colour codes
PendingAnswers ==
    {<<>>, <<"ESC[32m", "+hostname leaf1", "ESC[0m">>}

\* line 126: re.sub(r"\x1b\[\d+m", "", diff)
RECURSIVE StripColour(_)
StripColour(diff) ==
    IF diff = <<>> THEN <<>>
    ELSE IF Head(diff) \in {"ESC[32m", "ESC[0m"} THEN StripColour(Tail(diff))
         ELSE <<Head(diff)>> \o StripColour(Tail(diff))

\* a configuration call may follow construction or another configuration
\* call of the session
ConfigIdle ==
    /\ pc = "idle" \/ (pc = "done" /\ call \in ConfigCalls)
    /\ Len(history) < MaxConfigCalls

\* the entry of a call in the history
Called(name, arguments) == [call |-> name, arguments |-> arguments]

----------------------------------------------------------------------------
Init ==
    /\ loaded = FALSE
    /\ changed = FALSE
    /\ history = <<>>
    /\ call = "none"
    /\ pc = "idle"
    /\ input = <<>>
    /\ sent = <<>>
    /\ ret = NoOutcome
    /\ ping_result = <<>>
    /\ output = <<>>
    /\ output_json = <<>>
    /\ current_time = 0
    /\ interfaces = <<>>
    /\ block = <<>>
    /\ snmp_values = <<>>
    /\ dev_bgp_summary = <<>>
    /\ dev_bgp_neighbors = <<>>
    /\ bgp_neighbors = <<>>
    /\ bgp_neighbor = <<>>
    /\ afi = "None"
    /\ peer = "None"
    /\ afisLeft = {}
    /\ peersLeft = {}
    /\ afsLeft = {}

\* ping(destination): lines 256-351
Ping ==
    /\ pc = "idle"
    /\ \E out \in PingOutputs :
        /\ input' = [output_ping |-> out]
        /\ sent' = Append(sent, ViaSendCommand("ping"))
        /\ ping_result' = PingResultDict(out)
        /\ ret' = PingOutcome(out)
    /\ call' = "ping"
    /\ pc' = "done"
    /\ UNCHANGED <<loaded, changed, history, ifaceVars, snmp_values, bgpVars>>

NextPing == Ping

SpecPing == Init /\ [][NextPing]_vars

\* _convert_speed(speed) applied to one speed string: lines 380-385, 408
ConvertSpeed ==
    /\ pc = "idle"
    /\ \E speed \in SpeedStrings :
        /\ input' = [speed |-> speed]
        /\ ret' = Returned(_convert_speed(speed))
    /\ call' = "_convert_speed"
    /\ pc' = "done"
    /\ UNCHANGED <<loaded, changed, history, sent, ping_result, ifaceVars, snmp_values, bgpVars>>

NextSpeed == ConvertSpeed

SpecSpeed == Init /\ [][NextSpeed]_vars

\* cli(commands): lines 639-647
Cli ==
    /\ pc = "idle"
    /\ \E commands \in CliArguments :
        IF CliRejects(commands)
        THEN /\ input' = [commands |-> commands, outputs |-> <<>>]
             /\ sent' = sent
             /\ ret' = Raised("TypeError")
        ELSE \E outs \in [1..Len(commands.items) -> CliOutputs] :
             /\ input' = [commands |-> commands, outputs |-> outs]
             /\ sent' = sent \o CliSent(commands.items)
             /\ ret' = Returned(CliOutput(commands.items, outs))
    /\ call' = "cli"
    /\ pc' = "done"
    /\ UNCHANGED <<loaded, changed, history, ping_result, ifaceVars, snmp_values, bgpVars>>

NextCli == Cli

SpecCli == Init /\ [][NextCli]_vars

\* get_snmp_information(): lines 573-637
GetSnmpInformation ==
    /\ pc = "idle"
    /\ \E lines \in SnmpOutputs :
        LET acc == SnmpScan(lines) IN
        /\ input' = [snmp_config_output |-> lines]
        /\ snmp_values' = acc
        /\ ret' = IF acc.failed THEN Raised("IndexError")
                  ELSE Returned(SnmpInformation(acc))
    /\ sent' = Append(sent, ViaSendCommand("net show configuration snmp-server"))
    /\ call' = "get_snmp_information"
    /\ pc' = "done"
    /\ UNCHANGED <<loaded, changed, history, ping_result, ifaceVars, bgpVars>>

NextSnmp == GetSnmpInformation

SpecSnmp == Init /\ [][NextSnmp]_vars

\* get_lldp_neighbors(): lines 362-377, the first attempt
GetLldpNeighbors ==
    /\ pc = "idle"
    /\ \E answer \in InterfaceAnswers :
        /\ output' = answer
        /\ IF answer.json
           THEN /\ output_json' = answer.value
                /\ ret' = Returned(LldpNeighbors(answer.value))
                /\ pc' = "done"
           ELSE /\ pc' = "retry"
                /\ UNCHANGED <<output_json, ret>>
    /\ sent' = Append(sent, ViaSendCommand(InterfaceCommand))
    /\ call' = "get_lldp_neighbors"
    /\ UNCHANGED <<loaded, changed, history, input, ping_result, current_time,
                   interfaces, block, snmp_values, bgpVars>>

\* lines 369-370: the second attempt, through self.device.send_command
GetLldpNeighborsRetry ==
    /\ call = "get_lldp_neighbors" /\ pc = "retry"
    /\ \E answer \in InterfaceAnswers :
        IF answer.json
        THEN /\ output_json' = answer.value
             /\ ret' = Returned(LldpNeighbors(answer.value))
        ELSE /\ ret' = Raised("JSONDecodeError")
             /\ UNCHANGED output_json
    /\ sent' = Append(sent, ViaDevice(InterfaceCommand))
    /\ pc' = "done"
    /\ UNCHANGED <<loaded, changed, history, call, input, ping_result, output,
                   current_time, interfaces, block, snmp_values, bgpVars>>

\* get_interfaces_ip(): lines 464-486, the first attempt
GetInterfacesIp ==
    /\ pc = "idle"
    /\ \E answer \in InterfaceAnswers :
        /\ output' = answer
        /\ IF answer.json
           THEN /\ output_json' = answer.value
                /\ ret' = Returned(InterfacesIp(answer.value))
                /\ pc' = "done"
           ELSE /\ pc' = "retry"
                /\ UNCHANGED <<output_json, ret>>
    /\ sent' = Append(sent, ViaSendCommand(InterfaceCommand))
    /\ call' = "get_interfaces_ip"
    /\ UNCHANGED <<loaded, changed, history, input, ping_result, current_time,
                   interfaces, block, snmp_values, bgpVars>>

\* lines 471-474: the second attempt
GetInterfacesIpRetry ==
    /\ call = "get_interfaces_ip" /\ pc = "retry"
    /\ \E answer \in InterfaceAnswers :
        IF answer.json
        THEN /\ output_json' = answer.value
             /\ ret' = Returned(InterfacesIp(answer.value))
        ELSE /\ ret' = Raised("JSONDecodeError")
             /\ UNCHANGED output_json
    /\ sent' = Append(sent, ViaDevice(InterfaceCommand))
    /\ pc' = "done"
    /\ UNCHANGED <<loaded, changed, history, call, input, ping_result, output,
                   current_time, interfaces, block, snmp_values, bgpVars>>

\* get_facts(): lines 151-165, "net show system json" is parsed once
GetFacts ==
    /\ pc = "idle"
    /\ \E answer \in SystemAnswers :
        IF answer.json
        THEN /\ input' = [system |-> answer.value]
             /\ pc' = "interfaces"
             /\ ret' = ret
        ELSE /\ ret' = Raised("JSONDecodeError")
             /\ pc' = "done"
             /\ input' = input
    /\ sent' = Append(sent, ViaSendCommand("net show system json"))
    /\ call' = "get_facts"
    /\ UNCHANGED <<loaded, changed, history, ping_result, ifaceVars, snmp_values, bgpVars>>

\* lines 167-178: the interface list, the first attempt
GetFactsInterfaces ==
    /\ call = "get_facts" /\ pc = "interfaces"
    /\ \E answer \in InterfaceAnswers :
        /\ output' = answer
        /\ IF answer.json
           THEN /\ output_json' = answer.value
                /\ ret' = Returned(Facts(input.system, answer.value))
                /\ pc' = "done"
           ELSE /\ pc' = "retry"
                /\ UNCHANGED <<output_json, ret>>
    /\ sent' = Append(sent, ViaSendCommand(InterfaceCommand))
    /\ UNCHANGED <<loaded, changed, history, call, input, ping_result, current_time,
                   interfaces, block, snmp_values, bgpVars>>

\* lines 172-175: the second attempt
GetFactsInterfacesRetry ==
    /\ call = "get_facts" /\ pc = "retry"
    /\ \E answer \in InterfaceAnswers :
        IF answer.json
        THEN /\ output_json' = answer.value
             /\ ret' = Returned(Facts(input.system, answer.value))
        ELSE /\ ret' = Raised("JSONDecodeError")
             /\ UNCHANGED output_json
    /\ sent' = Append(sent, ViaDevice(InterfaceCommand))
    /\ pc' = "done"
    /\ UNCHANGED <<loaded, changed, history, call, input, ping_result, output,
                   current_time, interfaces, block, snmp_values, bgpVars>>

\* get_interfaces(): lines 379-396, the first attempt
GetInterfaces ==
    /\ pc = "idle"
    /\ \E answer \in InterfaceAnswers :
        /\ output' = answer
        /\ IF answer.json
           THEN output_json' = answer.value /\ pc' = "date"
           ELSE output_json' = output_json /\ pc' = "retry"
    /\ sent' = Append(sent, ViaSendCommand(InterfaceCommand))
    /\ call' = "get_interfaces"
    /\ UNCHANGED <<loaded, changed, history, input, ret, ping_result, current_time,
                   interfaces, block, snmp_values, bgpVars>>

\* lines 393-396: the second attempt
GetInterfacesRetry ==
    /\ call = "get_interfaces" /\ pc = "retry"
    /\ \E answer \in InterfaceAnswers :
        IF answer.json
        THEN output_json' = answer.value /\ pc' = "date" /\ ret' = ret
        ELSE output_json' = output_json /\ pc' = "done"
             /\ ret' = Raised("JSONDecodeError")
    /\ sent' = Append(sent, ViaDevice(InterfaceCommand))
    /\ UNCHANGED <<loaded, changed, history, call, input, ping_result, output,
                   current_time, interfaces, block, snmp_values, bgpVars>>

\* lines 397-409: the reference time, then one record for each interface
GetInterfacesDate ==
    /\ call = "get_interfaces" /\ pc = "date"
    /\ \E answer \in DateAnswers :
        IF IsDate(answer)
        THEN /\ current_time' = Strptime(answer)
             /\ interfaces' = InterfaceRecords(output_json)
             /\ pc' = "daemon"
             /\ ret' = ret
        ELSE /\ ret' = Raised("ValueError")
             /\ pc' = "done"
             /\ UNCHANGED <<current_time, interfaces>>
    /\ sent' = Append(sent, ViaSendCommand("date '+%Y/%m/%d %H:%M:%S'"))
    /\ UNCHANGED <<loaded, changed, history, call, input, ping_result, output,
                   output_json, block, snmp_values, bgpVars>>

DaemonCommand == "sudo vtysh -c 'show version'"
ShowInterfaceCommand == "sudo vtysh -c 'show interface'"

\* lines 411-417: the daemon check; self.device.enable() of _send_command
\* (lines 141-145) may refuse, and then nothing is sent
GetInterfacesDaemonCheck ==
    /\ call = "get_interfaces" /\ pc = "daemon"
    /\ \E enabled \in BOOLEAN, daemon_check \in DaemonAnswers :
        IF ~enabled
        THEN /\ ret' = Raised("CommandErrorException")
             /\ pc' = "done"
             /\ UNCHANGED <<sent, input, interfaces>>
        ELSE /\ sent' = Append(sent, ViaSendCommand(DaemonCommand))
             /\ input' = [daemon_check |-> daemon_check]
             /\ IF DaemonFailed(daemon_check)
                THEN /\ interfaces' = AllNeverFlapped(interfaces)
                     /\ ret' = Returned(AllNeverFlapped(interfaces))
                     /\ pc' = "done"
                ELSE /\ pc' = "show"
                     /\ UNCHANGED <<interfaces, ret>>
    /\ UNCHANGED <<loaded, changed, history, call, ping_result, output, output_json,
                   current_time, block, snmp_values, bgpVars>>

\* lines 419-422: the "show interface" dump; its blocks are drawn one by
\* one as the loop of line 423 reaches them
GetInterfacesShowInterface ==
    /\ call = "get_interfaces" /\ pc = "show"
    /\ \E enabled \in BOOLEAN :
        IF ~enabled
        THEN /\ ret' = Raised("CommandErrorException")
             /\ pc' = "done"
             /\ sent' = sent
        ELSE /\ sent' = Append(sent, ViaSendCommand(ShowInterfaceCommand))
             /\ pc' = "blocks"
             /\ ret' = ret
    /\ UNCHANGED <<loaded, changed, history, call, input, ping_result, ifaceVars,
                   snmp_values, bgpVars>>

\* lines 423-461: one round of the loop over the blocks
GetInterfacesBlock ==
    /\ call = "get_interfaces" /\ pc = "blocks"
    /\ \E lines \in Blocks :
        LET o == BlockOutcome(interfaces, current_time, lines) IN
        /\ block' = lines
        /\ interfaces' = o.interfaces
        /\ IF o.failed
           THEN ret' = Raised("TypeError") /\ pc' = "done"
           ELSE ret' = ret /\ pc' = "block_done"
    /\ UNCHANGED <<loaded, changed, history, call, input, sent, ping_result, output,
                   output_json, current_time, snmp_values, bgpVars>>

\* line 423: the loop goes on to the next block
GetInterfacesNextBlock ==
    /\ call = "get_interfaces" /\ pc = "block_done"
    /\ block' = <<>>
    /\ pc' = "blocks"
    /\ UNCHANGED <<loaded, changed, history, call, input, sent, ret, ping_result,
                   output, output_json, current_time, interfaces, snmp_values, bgpVars>>

\* line 462: the dump has no more blocks
GetInterfacesReturn ==
    /\ call = "get_interfaces" /\ pc = "blocks"
    /\ ret' = Returned(interfaces)
    /\ pc' = "done"
    /\ UNCHANGED <<loaded, changed, history, call, input, sent, ping_result,
                   ifaceVars, snmp_values, bgpVars>>

NextInterfaces ==
    \/ GetInterfaces
    \/ GetInterfacesRetry
    \/ GetInterfacesDate
    \/ GetInterfacesDaemonCheck
    \/ GetInterfacesShowInterface
    \/ GetInterfacesBlock
    \/ GetInterfacesNextBlock
    \/ GetInterfacesReturn

SpecInterfaces == Init /\ [][NextInterfaces]_vars

\* get_bgp_neighbors(): lines 506-512, the summary, parsed once
GetBgpNeighbors ==
    /\ pc = "idle"
    /\ \E answer \in SummaryAnswers :
        /\ output' = answer
        /\ IF answer.json
           THEN /\ dev_bgp_summary' = answer.value
                /\ pc' = "neighbor"
                /\ ret' = ret
           ELSE /\ ret' = Raised("JSONDecodeError")
                /\ pc' = "done"
                /\ dev_bgp_summary' = dev_bgp_summary
    /\ sent' = Append(sent, ViaSendCommand(SummaryCommand))
    /\ call' = "get_bgp_neighbors"
    /\ bgp_neighbors' = [global |-> EmptyObject]
    /\ UNCHANGED <<loaded, changed, history, input, ping_result, output_json,
                   current_time, interfaces, block, snmp_values,
                   dev_bgp_neighbors, bgp_neighbor, afi, peer, afisLeft,
                   peersLeft, afsLeft>>

\* lines 513-515: the neighbor document, parsed once
GetBgpNeighborsDetail ==
    /\ call = "get_bgp_neighbors" /\ pc = "neighbor"
    /\ \E answer \in NeighborAnswers :
        IF answer.json
        THEN /\ dev_bgp_neighbors' = answer.value
             /\ afisLeft' = DOMAIN dev_bgp_summary
             /\ pc' = "afi"
             /\ ret' = ret
        ELSE /\ ret' = Raised("JSONDecodeError")
             /\ pc' = "done"
             /\ UNCHANGED <<dev_bgp_neighbors, afisLeft>>
    /\ sent' = Append(sent, ViaSendCommand(NeighborCommand))
    /\ UNCHANGED <<loaded, changed, history, call, input, ping_result, ifaceVars,
                   snmp_values, dev_bgp_summary, bgp_neighbors, bgp_neighbor,
                   afi, peer, peersLeft, afsLeft>>

\* lines 515-520: one round of the loop over the families of the summary
GetBgpNeighborsAfi ==
    /\ call = "get_bgp_neighbors" /\ pc = "afi"
    /\ \E a \in afisLeft :
        /\ afisLeft' = afisLeft \ {a}
        /\ IF SkippedAfi(dev_bgp_summary, a)
           THEN UNCHANGED <<pc, afi, peersLeft, bgp_neighbors>>
           ELSE /\ afi' = a
                /\ bgp_neighbors' =
                     [global |->
                        [router_id |-> dev_bgp_summary[a].routerId,
                         peers |-> IF HasKey(bgp_neighbors.global, "peers")
                                   THEN bgp_neighbors.global.peers
                                   ELSE EmptyObject]]
                /\ peersLeft' = DOMAIN dev_bgp_summary[a].peers
                /\ pc' = IF DOMAIN dev_bgp_summary[a].peers = {}
                         THEN "afi" ELSE "peer"
    /\ UNCHANGED <<loaded, changed, history, call, input, sent, ret, ping_result,
                   ifaceVars, snmp_values, dev_bgp_summary, dev_bgp_neighbors,
                   bgp_neighbor, peer, afsLeft>>

\* lines 520-539: one round of the loop over the peers of a family
GetBgpNeighborsPeer ==
    /\ call = "get_bgp_neighbors" /\ pc = "peer"
    /\ \E p \in peersLeft :
        IF p \notin DOMAIN dev_bgp_neighbors
        THEN /\ ret' = Raised("KeyError")
             /\ pc' = "done"
             /\ UNCHANGED <<peer, peersLeft, afsLeft, bgp_neighbor>>
        ELSE IF UptimeFails(dev_bgp_neighbors[p])
        THEN /\ ret' = Raised("TypeError")
             /\ pc' = "done"
             /\ UNCHANGED <<peer, peersLeft, afsLeft, bgp_neighbor>>
        ELSE /\ peer' = p
             /\ peersLeft' = peersLeft \ {p}
             /\ bgp_neighbor' = PeerRecord(dev_bgp_neighbors[p])
             /\ afsLeft' = DOMAIN dev_bgp_neighbors[p].addressFamilyInfo
             /\ pc' = "af"
             /\ ret' = ret
    /\ UNCHANGED <<loaded, changed, history, call, input, sent, ping_result, ifaceVars,
                   snmp_values, dev_bgp_summary, dev_bgp_neighbors,
                   bgp_neighbors, afi, afisLeft>>

\* lines 540-568: one round of the loop over the families of a peer
GetBgpNeighborsAf ==
    /\ call = "get_bgp_neighbors" /\ pc = "af"
    /\ \E k \in afsLeft :
        LET af == Lower(k) IN
        IF af \notin supported_afis
        THEN /\ afsLeft' = afsLeft \ {k}
             /\ UNCHANGED <<sent, ret, pc, dev_bgp_summary, dev_bgp_neighbors,
                            bgp_neighbor>>
        ELSE \E answer \in AdvertisedAnswers :
             /\ sent' = Append(sent, ViaSendCommand(AdvertisedCommand(af, peer)))
             /\ IF ~StripStray(answer).json
                THEN /\ ret' = Raised("JSONDecodeError")
                     /\ pc' = "done"
                     /\ UNCHANGED <<afsLeft, dev_bgp_summary,
                                    dev_bgp_neighbors, bgp_neighbor>>
                ELSE IF SummaryLacks(dev_bgp_summary, af, peer)
                THEN /\ ret' = Raised("KeyError")
                     /\ pc' = "done"
                     /\ UNCHANGED <<afsLeft, dev_bgp_summary,
                                    dev_bgp_neighbors, bgp_neighbor>>
                ELSE LET is_enabled == bgp_neighbor.is_enabled
                         received == ForceWhenDisabled(is_enabled,
                             dev_bgp_summary[af].peers[peer].prefixReceivedCount)
                         advertised == ForceWhenDisabled(is_enabled,
                             StripStray(answer).value.totalPrefixCounter)
                         accepted == ForceWhenDisabled(is_enabled,
                             dev_bgp_neighbors[peer].addressFamilyInfo[k]
                                 .acceptedPrefixCounter)
                         route_info == [received_prefixes |-> received,
                                        sent_prefixes |-> advertised,
                                        accepted_prefixes |-> accepted]
                     IN /\ dev_bgp_summary' =
                             [dev_bgp_summary EXCEPT
                                ![af].peers[peer].prefixReceivedCount = received]
                        /\ dev_bgp_neighbors' =
                             [dev_bgp_neighbors EXCEPT
                                ![peer].addressFamilyInfo[k]
                                    .acceptedPrefixCounter = accepted]
                        /\ bgp_neighbor' =
                             [bgp_neighbor EXCEPT !.address_family =
                                (FirstWord(af) :> route_info) @@ @]
                        /\ afsLeft' = afsLeft \ {k}
                        /\ UNCHANGED <<ret, pc>>
    /\ UNCHANGED <<loaded, changed, history, call, input, ping_result, ifaceVars,
                   snmp_values, bgp_neighbors, afi, peer, afisLeft, peersLeft>>

\* line 569: the record of the peer is stored
GetBgpNeighborsStore ==
    /\ call = "get_bgp_neighbors" /\ pc = "af"
    /\ afsLeft = {}
    /\ bgp_neighbors' =
         [global |-> [bgp_neighbors.global EXCEPT
                        !.peers = (peer :> bgp_neighbor) @@ @]]
    /\ pc' = IF peersLeft = {} THEN "afi" ELSE "peer"
    /\ UNCHANGED <<loaded, changed, history, call, input, sent, ret, ping_result,
                   ifaceVars, snmp_values, dev_bgp_summary, dev_bgp_neighbors,
                   bgp_neighbor, afi, peer, afisLeft, peersLeft, afsLeft>>

\* line 571
GetBgpNeighborsReturn ==
    /\ call = "get_bgp_neighbors" /\ pc = "afi"
    /\ afisLeft = {}
    /\ ret' = Returned(bgp_neighbors)
    /\ pc' = "done"
    /\ UNCHANGED <<loaded, changed, history, call, input, sent, ping_result, ifaceVars,
                   snmp_values, bgpVars>>

NextBgp ==
    \/ GetBgpNeighbors
    \/ GetBgpNeighborsDetail
    \/ GetBgpNeighborsAfi
    \/ GetBgpNeighborsPeer
    \/ GetBgpNeighborsAf
    \/ GetBgpNeighborsStore
    \/ GetBgpNeighborsReturn

SpecBgp == Init /\ [][NextBgp]_vars

\* get_arp_table(vrf): lines 180-209
GetArpTable ==
    /\ pc = "idle"
    /\ \E vrf \in ArpVrfs, out \in ArpOutputs :
        /\ input' = [vrf |-> vrf, output |-> out]
        /\ IF vrf # ""
           THEN /\ sent' = sent
                /\ ret' = Raised("NotImplementedError")
           ELSE /\ sent' = Append(sent, ViaSendCommand("arp -n"))
                /\ ret' = IF ArpTable(out).failed THEN Raised("IndexError")
                          ELSE Returned(ArpTable(out).arp_table)
    /\ call' = "get_arp_table"
    /\ pc' = "done"
    /\ UNCHANGED <<loaded, changed, history, ping_result, ifaceVars, snmp_values, bgpVars>>

NextArp == GetArpTable

SpecArp == Init /\ [][NextArp]_vars

\* get_ntp_stats(): lines 211-254
GetNtpStats ==
    /\ pc = "idle"
    /\ \E out \in NtpOutputs :
        /\ input' = [output |-> out]
        /\ ret' = NtpStats(out)
    /\ sent' = Append(sent, ViaSendCommand("ntpq -np"))
    /\ call' = "get_ntp_stats"
    /\ pc' = "done"
    /\ UNCHANGED <<loaded, changed, history, ping_result, ifaceVars, snmp_values, bgpVars>>

NextNtp == GetNtpStats

SpecNtp == Init /\ [][NextNtp]_vars

\* load_merge_candidate(filename, config): lines 95-116
LoadMergeCandidate ==
    /\ ConfigIdle
    /\ \E arguments \in LoadArguments :
        LET filename == arguments.filename
            config == arguments.config
        IN /\ history' = Append(history, Called("load_merge_candidate", arguments))
           /\ IF LoadRejects(filename, config)
              THEN /\ input' = arguments
                   /\ ret' = Raised("MergeConfigException")
                   /\ UNCHANGED <<loaded, sent>>
              ELSE /\ loaded' = TRUE
                   /\ \E file \in FilesAt(filename) :
                        IF filename.type # "NoneType" /\ ~file.exists
                        THEN /\ input' = arguments
                             /\ ret' = Raised("FileNotFoundError")
                             /\ sent' = sent
                        ELSE LET candidate == Candidate(filename, config, file)
                             IN \E a \in AnswerRuns(candidate) :
                                  /\ input' = arguments @@ [outputs |-> a]
                                  /\ sent' = sent \o [i \in 1..Len(a) |->
                                                ViaSendCommand(candidate[i])]
                                  /\ ret' = IF a # <<>> /\ MergeFails(a[Len(a)])
                                            THEN Raised("MergeConfigException")
                                            ELSE ReturnedNone
    /\ call' = "load_merge_candidate"
    /\ pc' = "done"
    /\ UNCHANGED <<changed, ping_result, ifaceVars, snmp_values, bgpVars>>

\* discard_config(): lines 118-121
DiscardConfig ==
    /\ ConfigIdle
    /\ history' = Append(history, Called("discard_config", <<>>))
    /\ IF loaded
       THEN /\ sent' = Append(sent, ViaSendCommand("net abort"))
            /\ loaded' = FALSE
       ELSE UNCHANGED <<sent, loaded>>
    /\ input' = <<>>
    /\ ret' = ReturnedNone
    /\ call' = "discard_config"
    /\ pc' = "done"
    /\ UNCHANGED <<changed, ping_result, ifaceVars, snmp_values, bgpVars>>

\* compare_config(): lines 123-127
CompareConfig ==
    /\ ConfigIdle
    /\ history' = Append(history, Called("compare_config", <<>>))
    /\ IF loaded
       THEN \E diff \in PendingAnswers :
              /\ sent' = Append(sent, ViaSendCommand("net pending"))
              /\ input' = [diff |-> diff]
              /\ ret' = Returned(StripColour(diff))
       ELSE /\ sent' = sent
            /\ input' = <<>>
            /\ ret' = Returned(<<>>)
    /\ call' = "compare_config"
    /\ pc' = "done"
    /\ UNCHANGED <<loaded, changed, ping_result, ifaceVars, snmp_values, bgpVars>>

\* commit_config(message): lines 129-133
CommitConfig ==
    /\ ConfigIdle
    /\ history' = Append(history, Called("commit_config", <<>>))
    /\ IF loaded
       THEN /\ sent' = Append(sent, ViaSendCommand("net commit"))
            /\ changed' = TRUE
            /\ loaded' = FALSE
       ELSE UNCHANGED <<sent, changed, loaded>>
    /\ input' = <<>>
    /\ ret' = ReturnedNone
    /\ call' = "commit_config"
    /\ pc' = "done"
    /\ UNCHANGED <<ping_result, ifaceVars, snmp_values, bgpVars>>

\* rollback(): lines 135-138
Rollback ==
    /\ ConfigIdle
    /\ history' = Append(history, Called("rollback", <<>>))
    /\ IF changed
       THEN /\ sent' = Append(sent, ViaSendCommand("net rollback last"))
            /\ changed' = FALSE
       ELSE UNCHANGED <<sent, changed>>
    /\ input' = <<>>
    /\ ret' = ReturnedNone
    /\ call' = "rollback"
    /\ pc' = "done"
    /\ UNCHANGED <<loaded, ping_result, ifaceVars, snmp_values, bgpVars>>

NextConfig ==
    \/ LoadMergeCandidate
    \/ DiscardConfig
    \/ CompareConfig
    \/ CommitConfig
    \/ Rollback

SpecConfig == Init /\ [][NextConfig]_vars

Next ==
    \/ Ping
    \/ ConvertSpeed
    \/ Cli
    \/ GetSnmpInformation
    \/ GetLldpNeighbors
    \/ GetLldpNeighborsRetry
    \/ GetInterfacesIp
    \/ GetInterfacesIpRetry
    \/ GetFacts
    \/ GetFactsInterfaces
    \/ GetFactsInterfacesRetry
    \/ NextInterfaces
    \/ NextBgp
    \/ GetArpTable
    \/ GetNtpStats
    \/ NextConfig

Spec == Init /\ [][Next]_vars

----------------------------------------------------------------------------
(* The claims.                                                             *)

\* C1: whenever the answer to the ping command contains "Unknown host",
\* ping hands its caller a mapping that has the key "error" and has no key
\* "success".
C1_UnknownHostReturnsErrorRecord ==
    (call = "ping" /\ pc = "done" /\ HasUnknownHost(input.output_ping)) =>
        /\ ret.kind = "return"
        /\ ~ret.isNone
        /\ "error" \in DOMAIN ret.value
        /\ "success" \notin DOMAIN ret.value

\* a string that is exactly a decimal integer followed by the unit letter u
IsIntWithUnit(s, u) ==
    /\ Len(s) >= 2
    /\ s[Len(s)] = u
    /\ \A i \in 1..(Len(s) - 1) : s[i] \in Digits

\* C8: the speed conversion gives n for "<n>M", n * 1000 for "<n>G" and -1
\* for every other string.
C8_ConvertSpeedExactForms ==
    (call = "_convert_speed" /\ pc = "done") =>
        LET s == input.speed
            n == IntOfDigits(SubSeq(s, 1, Len(s) - 1))
        IN ret.value = (IF IsIntWithUnit(s, "M") THEN n
                        ELSE IF IsIntWithUnit(s, "G") THEN n * 1000
                        ELSE -1)

\* the comma-join of a sequence of tokens, as a sequence of parts
RECURSIVE CommaJoin(_)
CommaJoin(toks) ==
    IF toks = <<>> THEN <<>>
    ELSE IF Len(toks) = 1 THEN toks
    ELSE <<Head(toks), ",">> \o CommaJoin(Tail(toks))

\* the ACL tokens, "any" read as "N/A", of the lines that name community c,
\* in line order
RECURSIVE AclsOf(_, _)
AclsOf(lines, c) ==
    IF lines = <<>> THEN <<>>
    ELSE (IF Head(lines) \in CommunityLines /\ Head(lines)[2] = c
          THEN <<IF Head(lines)[4] = "any" THEN "N/A" ELSE Head(lines)[4]>>
          ELSE <<>>)
         \o AclsOf(Tail(lines), c)

\* C9: the result of get_snmp_information has one community entry for each
\* distinct community string of the readonly-community lines, and its acl is
\* the comma-join, in line order, of the ACL tokens of all the lines that
\* name the community.
C9_SnmpCommunityAclsMerged ==
    (call = "get_snmp_information" /\ pc = "done" /\ ret.kind = "return") =>
        LET lines == input.snmp_config_output
            named == {lines[i][2] : i \in {k \in 1..Len(lines) :
                                              lines[k] \in CommunityLines}}
        IN /\ DOMAIN ret.value.community = named
           /\ \A c \in named :
                ret.value.community[c].acl = CommaJoin(AclsOf(lines, c))

\* C9 witness: a community named by two lines with different ACLs, followed
\* by a line of another community.
C9_Witness ==
    /\ call = "get_snmp_information" /\ pc = "done" /\ ret.kind = "return"
    /\ input.snmp_config_output =
         <<<<"readonly-community", "PUB", "access", "10.0.0.1">>,
           <<"readonly-community", "PUB", "access", "10.0.0.2">>,
           <<"readonly-community-v6", "PRIV", "access", "any">>>>
    /\ ret.value.community["PUB"].acl = <<"10.0.0.1", ",", "10.0.0.2">>
    /\ ret.value.community["PRIV"].acl = <<"N/A">>

\* C10: cli with an argument that is not a list raises TypeError and sends
\* nothing; with a list it sends every command once, in list order, through
\* the device and returns the mapping from each command to its output.
C10_CliTypeCheckedThenSentInOrder ==
    (call = "cli" /\ pc = "done") =>
        LET items == input.commands.items
            outs == input.outputs
        IN IF input.commands.type # "list"
           THEN ret.kind = "raise" /\ ret.exc = "TypeError" /\ sent = <<>>
           ELSE /\ Len(sent) = Len(items)
                /\ \A i \in 1..Len(items) :
                     sent[i] = [via |-> "device.send_command", command |-> items[i]]
                /\ ret.kind = "return"
                /\ DOMAIN ret.value = {items[i] : i \in 1..Len(items)}
                /\ \A i \in 1..Len(items) :
                     (\A j \in (i + 1)..Len(items) : items[j] # items[i])
                         => ret.value[items[i]] = outs[i]

\* C10 witness: a tuple of commands was refused and nothing was sent.
C10_Witness ==
    /\ call = "cli" /\ pc = "done"
    /\ input.commands.type = "tuple"
    /\ ret.kind = "raise"
    /\ sent = <<>>

\* a block as the device prints it: the state line first, then at most
\* one "Link ups:" line and at most one "Link downs:" line, in this order
UpsOf(lines) == {i \in 1..Len(lines) : lines[i] \in {UpsLine(Never), UpsLine(T1)}}
DownsOf(lines) ==
    {i \in 1..Len(lines) : lines[i] \in {DownsLine(Never), DownsLine(T2)}}
WellFormedBlock(lines) ==
    /\ lines # <<>>
    /\ lines[1] \in {StateLine("swp1", "up"), StateLine("SWP2", "down")}
    /\ \A i \in 2..Len(lines) :
         lines[i] \notin {StateLine("swp1", "up"), StateLine("SWP2", "down")}
    /\ Cardinality(UpsOf(lines)) <= 1
    /\ Cardinality(DownsOf(lines)) <= 1
    /\ \A i \in UpsOf(lines), j \in DownsOf(lines) : i < j

\* C5: for a block that names a known interface: with both "Link ups:
\* never" and "Link downs: never", or with neither line, last_flapped is
\* -1.0; with only one of the two lines, carrying a timestamp, the call does
\* not fail and last_flapped is the age of that timestamp at the reference
\* time.
C5_FlapPolicyPerBlock ==
    (/\ call = "get_interfaces"
     /\ block # <<>>
     /\ WellFormedBlock(block)
     /\ block[1][1] \in DOMAIN interfaces) =>
        LET name == block[1][1]
            ups == {block[i] : i \in UpsOf(block)}
            downs == {block[i] : i \in DownsOf(block)}
            flapped(v) == /\ pc = "block_done"
                          /\ "last_flapped" \in DOMAIN interfaces[name]
                          /\ interfaces[name]["last_flapped"] = v
        IN /\ (ups = {UpsLine(Never)} /\ downs = {DownsLine(Never)}) => flapped(-1)
           /\ (ups = {} /\ downs = {}) => flapped(-1)
           /\ (ups = {UpsLine(T1)} /\ downs = {})
                => flapped(current_time - Strptime(T1))
           /\ (ups = {} /\ downs = {DownsLine(T2)})
                => flapped(current_time - Strptime(T2))

\* the place of the first send of `command` in the log, 0 when it was not sent
FirstSent(log, command) ==
    IF \E i \in 1..Len(log) : log[i].command = command
    THEN CHOOSE i \in 1..Len(log) :
            /\ log[i].command = command
            /\ \A j \in 1..(i - 1) : log[j].command # command
    ELSE 0

\* the answer to the daemon check has the line that reports that no routing
\* daemon could be reached
SaysNoDaemons(answer) ==
    "Exiting: failed to connect to any daemons." \in {answer[i] : i \in DOMAIN answer}

\* C6: when the answer to the daemon check contains "Exiting: failed to
\* connect to any daemons.", get_interfaces returns every interface with
\* last_flapped = -1.0 and "show interface" is never sent; when it does not,
\* "show interface" is sent exactly once, right after the daemon check.
C6_DaemonCheckGatesShowInterface ==
    (call = "get_interfaces") =>
        LET shows == CountSent(sent, ShowInterfaceCommand)
            checks == CountSent(sent, DaemonCommand)
        IN /\ shows <= 1
           /\ checks <= 1
           /\ (shows = 1) =>
                /\ checks = 1
                /\ ~SaysNoDaemons(input.daemon_check)
                /\ FirstSent(sent, ShowInterfaceCommand)
                     = FirstSent(sent, DaemonCommand) + 1
           /\ (checks = 1 /\ SaysNoDaemons(input.daemon_check)) =>
                /\ shows = 0
                /\ pc = "done"
                /\ ret.kind = "return"
                /\ DOMAIN ret.value = DOMAIN output_json
                /\ \A i \in DOMAIN ret.value : ret.value[i]["last_flapped"] = -1
           /\ (checks = 1 /\ ~SaysNoDaemons(input.daemon_check)
                 /\ pc \in {"blocks", "block_done"}) => shows = 1
           /\ (pc = "done" /\ ret.kind = "return"
                 /\ ~SaysNoDaemons(input.daemon_check)) => shows = 1

\* C6 witness: the daemon was unreachable and two interfaces were returned.
C6_Witness ==
    /\ call = "get_interfaces" /\ pc = "done" /\ ret.kind = "return"
    /\ CountSent(sent, DaemonCommand) = 1
    /\ SaysNoDaemons(input.daemon_check)
    /\ DOMAIN ret.value = IfNames
    /\ CountSent(sent, ShowInterfaceCommand) = 0

\* C7: every interface record that get_interfaces returns, one for each key
\* of the interfaces JSON, has a last_flapped field.
C7_EveryInterfaceHasLastFlapped ==
    (call = "get_interfaces" /\ pc = "done" /\ ret.kind = "return") =>
        /\ DOMAIN ret.value = DOMAIN output_json
        /\ \A i \in DOMAIN ret.value : "last_flapped" \in DOMAIN ret.value[i]

\* the peers of a returned get_bgp_neighbors result
ResultPeers(result) ==
    IF "peers" \in DOMAIN result.global THEN result.global.peers ELSE <<>>

\* C2: in the result of get_bgp_neighbors, a peer whose neighbor detail has
\* adminShutDown set has, for each of its supported address families,
\* received_prefixes = sent_prefixes = accepted_prefixes = -1.
C2_ShutdownPeerCountersForced ==
    (call = "get_bgp_neighbors" /\ pc = "done" /\ ret.kind = "return") =>
        \A p \in DOMAIN ResultPeers(ret.value) :
            LET detail == dev_bgp_neighbors[p]
                families == ResultPeers(ret.value)[p].address_family
            IN ("adminShutDown" \in DOMAIN detail /\ detail.adminShutDown) =>
                /\ DOMAIN families =
                     {FirstWord(Lower(k)) :
                        k \in {x \in DOMAIN detail.addressFamilyInfo :
                                  Lower(x) \in supported_afis}}
                /\ \A f \in DOMAIN families :
                     /\ families[f].received_prefixes = -1
                     /\ families[f].sent_prefixes = -1
                     /\ families[f].accepted_prefixes = -1

\* C2 witness: a result with a shut-down peer that has both families, and
\* an enabled peer that kept the counters of the device.
C2_Witness ==
    /\ call = "get_bgp_neighbors" /\ pc = "done" /\ ret.kind = "return"
    /\ DOMAIN ResultPeers(ret.value) = Peers
    /\ "adminShutDown" \in DOMAIN dev_bgp_neighbors["10.0.0.1"]
    /\ DOMAIN ResultPeers(ret.value)["10.0.0.1"].address_family = {"ipv4", "ipv6"}
    /\ ResultPeers(ret.value)["10.0.0.1"].address_family["ipv6"].sent_prefixes = -1
    /\ "adminShutDown" \notin DOMAIN dev_bgp_neighbors["10.0.0.2"]
    /\ ResultPeers(ret.value)["10.0.0.2"].address_family["ipv4"].sent_prefixes = 3

\* C3: in the result of get_bgp_neighbors the uptime of a peer is its
\* bgpTimerUpMsec divided by 1000 when its state is "Established", and -1
\* when its state is anything else.
C3_UptimeSecondsOrMinusOne ==
    (call = "get_bgp_neighbors" /\ pc = "done" /\ ret.kind = "return") =>
        \A p \in DOMAIN ResultPeers(ret.value) :
            ResultPeers(ret.value)[p].uptime =
                (IF dev_bgp_neighbors[p].bgpState = "Established"
                 THEN dev_bgp_neighbors[p].bgpTimerUpMsec \div 1000
                 ELSE -1)

\* the queries that parse the answer to a JSON command, and their command
JsonQueries ==
    {"get_interfaces", "get_interfaces_ip", "get_lldp_neighbors", "get_facts",
     "get_bgp_neighbors"}
JsonCommandOf(query) ==
    IF query = "get_bgp_neighbors" THEN SummaryCommand ELSE InterfaceCommand

\* C4: in every query that parses a JSON answer, an answer that is no JSON
\* makes the query send the same command once more, through the raw
\* channel; the parse failure reaches the caller only after this second
\* attempt, and the command is never sent a third time.
C4_JsonRetriedOnceThroughRawChannel ==
    (call \in JsonQueries /\ CountSent(sent, JsonCommandOf(call)) >= 1) =>
        LET command == JsonCommandOf(call)
            n == CountSent(sent, command)
            first == FirstSent(sent, command)
        IN /\ n <= 2
           /\ sent[first].via = "_send_command"
           /\ output.json => n = 1
           /\ ~output.json =>
                /\ (n = 2 \/ pc = "retry")
                /\ (n = 2) => sent[first + 1] = [via |-> "device.send_command",
                                                 command |-> command]
           /\ (pc = "done" /\ ret.kind = "raise" /\ ret.exc = "JSONDecodeError"
                 /\ ~output.json) => n = 2

\* the line has every token that the entry of C11 names
ArpLineHasTokens(line) ==
    /\ Len(line) >= 2
    /\ (\E t \in {"(incomplete)", "<incomplete>"} : line[2] = t) \/ Len(line) >= 3

\* C11: get_arp_table with an empty vrf returns one entry per line of the
\* answer after the first line, in line order, with ip = first token,
\* interface = last token, age = 0.0 and mac = third token, except that mac
\* is "00:00:00:00:00:00" when the second token contains "incomplete"
\* (stated for answers whose lines have the tokens the entry names).
C11_ArpOneEntryPerLine ==
    (call = "get_arp_table" /\ pc = "done" /\ input.vrf = ""
       /\ \A i \in 2..Len(input.output) : ArpLineHasTokens(input.output[i])) =>
        /\ ret.kind = "return"
        /\ ~ret.isNone
        /\ Len(ret.value) = Len(input.output) - 1
        /\ \A i \in 1..Len(ret.value) :
             LET line == input.output[i + 1]
                 entry == ret.value[i]
             IN /\ entry.ip = line[1]
                /\ entry.interface = line[Len(line)]
                /\ entry.age = 0
                /\ entry.mac = IF line[2] \in {"(incomplete)", "<incomplete>"}
                               THEN "00:00:00:00:00:00"
                               ELSE line[3]

\* C11 witness: a table of three entries, the second one unresolved.
C11_Witness ==
    /\ call = "get_arp_table" /\ pc = "done" /\ ret.kind = "return"
    /\ Len(ret.value) = 3
    /\ ret.value[1].mac = "00:50:56:97:af:b1"
    /\ ret.value[2].mac = "00:00:00:00:00:00"
    /\ ret.value[2].interface = "eth1"
    /\ ret.value[3].ip = "192.168.1.1"

\* the lines of an answer after the two header lines that are not empty
RECURSIVE NonEmptyLines(_)
NonEmptyLines(lines) ==
    IF lines = <<>> THEN <<>>
    ELSE IF Head(lines).remote = <<>> /\ Head(lines).rest = <<>>
         THEN NonEmptyLines(Tail(lines))
         ELSE <<Head(lines)>> \o NonEmptyLines(Tail(lines))

\* the tally characters that ntpq puts in front of an address
TallyCharacters == {"*", "+", "-", "#", "o", "x", "."}

\* the remote field without its tally character
WithoutMarker(remote) ==
    IF remote[1] \in TallyCharacters THEN Tail(remote) ELSE remote

\* C12: in the result of get_ntp_stats there is one peer record for every
\* non-empty line after the two header lines, in line order; the record has
\* synchronized = true exactly when the remote field begins with "*", its
\* remote is the dotted-quad address of the field with the marker removed,
\* and its when is 0 when the when field is "-".
C12_NtpPeerFromLine ==
    (call = "get_ntp_stats" /\ pc = "done" /\ ret.kind = "return") =>
        LET lines == NonEmptyLines(SubSeq(input.output, 3, Len(input.output)))
        IN /\ Len(ret.value) = Len(lines)
           /\ \A i \in 1..Len(lines) :
                /\ ret.value[i].synchronized = (lines[i].remote[1] = "*")
                /\ <<ret.value[i].remote>> = WithoutMarker(lines[i].remote)
                /\ (lines[i].rest[4] = "-") => ret.value[i].when = [int |-> 0]

\* C12 witness: three peers are returned, the first the selected one, the
\* second one with a tally character other than "*" and with when "-".
C12_Witness ==
    /\ call = "get_ntp_stats" /\ pc = "done" /\ ret.kind = "return"
    /\ Len(ret.value) = 3
    /\ ret.value[1].synchronized
    /\ ret.value[1].remote = "116.91.118.97"
    /\ ret.value[1].when = [str |-> "51"]
    /\ ~ret.value[2].synchronized
    /\ ret.value[2].remote = "219.117.210.137"
    /\ ret.value[2].when = [int |-> 0]
    /\ ret.value[3].remote = "133.130.120.204"

\* a printed timestamp in seconds since 1970-01-01, "never" being 1970-01-01
SecondsSinceEpoch(stamp) == IF stamp = Never THEN 0 ELSE Strptime(stamp)

\* C13: for a block that names a known interface and has both link lines,
\* at least one of them with a real timestamp, last_flapped is the whole
\* number of seconds from the later of the two timestamps ("never" being
\* 1970-01-01) to the reference time, also when that is a day or more.
C13_FlapAgeInWholeSeconds ==
    (/\ call = "get_interfaces"
     /\ block # <<>>
     /\ WellFormedBlock(block)
     /\ block[1][1] \in DOMAIN interfaces) =>
        LET name == block[1][1]
        IN \A up \in {Never, T1}, down \in {Never, T2} :
             (/\ {block[i] : i \in UpsOf(block)} = {UpsLine(up)}
              /\ {block[i] : i \in DownsOf(block)} = {DownsLine(down)}
              /\ (up # Never \/ down # Never)) =>
                LET later == IF SecondsSinceEpoch(up) > SecondsSinceEpoch(down)
                             THEN SecondsSinceEpoch(up)
                             ELSE SecondsSinceEpoch(down)
                IN /\ pc = "block_done"
                   /\ "last_flapped" \in DOMAIN interfaces[name]
                   /\ interfaces[name]["last_flapped"] = current_time - later

\* the supported address families of a peer, from its neighbor detail
SupportedFamiliesOf(p) ==
    {Lower(k) : k \in DOMAIN dev_bgp_neighbors[p].addressFamilyInfo}
        \cap {"ipv4 unicast", "ipv6 unicast"}

\* C14: a call of get_bgp_neighbors that returns has sent the summary
\* command once, then the neighbor-detail command once, then exactly one
\* "advertised-routes" command for each pair of a peer of the result and a
\* supported address family of that peer, and nothing else; no pair is
\* queried twice.
C14_OneAdvertisedQueryPerPair ==
    (call = "get_bgp_neighbors" /\ pc = "done" /\ ret.kind = "return") =>
        /\ Len(sent) >= 2
        /\ sent[1] = ViaSendCommand("net show bgp summary json")
        /\ sent[2] = ViaSendCommand("net show bgp neighbor json")
        /\ \A i \in 3..Len(sent) :
             \E p \in DOMAIN ResultPeers(ret.value) :
                 \E af \in SupportedFamiliesOf(p) :
                     sent[i].command = AdvertisedCommand(af, p)
        /\ \A p \in DOMAIN ResultPeers(ret.value) :
             \A af \in SupportedFamiliesOf(p) :
                 CountSent(sent, AdvertisedCommand(af, p)) = 1

\* a filename or a config was handed to the call
Given(x) ==
    \/ (x.type = "str" /\ x.value # "")
    \/ (x.type = "list" /\ x.items # <<>>)

\* a candidate is loaded after the calls h: a load_merge_candidate with a
\* filename or config was started, however it ended, and no commit_config
\* or discard_config was called after it
CandidateLoaded(h) ==
    \E i \in 1..Len(h) :
        /\ h[i].call = "load_merge_candidate"
        /\ Given(h[i].arguments.filename) \/ Given(h[i].arguments.config)
        /\ \A j \in (i + 1)..Len(h) :
             h[j].call \notin {"commit_config", "discard_config"}

\* a commit has happened after the calls h, with no rollback after it
Committed(h) ==
    \E i \in 1..Len(h) :
        /\ h[i].call = "commit_config"
        /\ CandidateLoaded(SubSeq(h, 1, i - 1))
        /\ \A j \in (i + 1)..Len(h) : h[j].call # "rollback"

\* what the i-th call of h may send of the four fixed commands
CommandOfCall(h, i) ==
    LET before == SubSeq(h, 1, i - 1)
        name == h[i].call
    IN CASE name = "discard_config" /\ CandidateLoaded(before) -> <<"net abort">>
         [] name = "compare_config" /\ CandidateLoaded(before) -> <<"net pending">>
         [] name = "commit_config" /\ CandidateLoaded(before) -> <<"net commit">>
         [] name = "rollback" /\ Committed(before) -> <<"net rollback last">>
         [] OTHER -> <<>>

RECURSIVE CommandsOfCalls(_, _)
CommandsOfCalls(h, n) ==
    IF n = 0 THEN <<>> ELSE CommandsOfCalls(h, n - 1) \o CommandOfCall(h, n)

\* the four fixed commands in a command log, in order
RECURSIVE FixedCommands(_)
FixedCommands(log) ==
    IF log = <<>> THEN <<>>
    ELSE (IF Head(log).command
               \in {"net abort", "net pending", "net commit", "net rollback last"}
          THEN <<Head(log).command>> ELSE <<>>) \o FixedCommands(Tail(log))

\* C15: after any sequence of configuration calls, "net abort", "net pending"
\* and "net commit" were sent by exactly the discard, compare and commit
\* calls made while a candidate was loaded, and "net rollback last" by
\* exactly the rollback calls made after a commit with no rollback since;
\* the fields loaded and changed say whether a candidate is loaded and
\* whether such a commit has happened, so that a call made in any other
\* state leaves them as they were; and compare_config made with no candidate
\* loaded returns the empty string.
C15_FixedCommandsFollowSession ==
    /\ loaded = CandidateLoaded(history)
    /\ changed = Committed(history)
    /\ FixedCommands(sent) = CommandsOfCalls(history, Len(history))
    /\ (/\ call = "compare_config"
        /\ ~CandidateLoaded(SubSeq(history, 1, Len(history) - 1)))
         => ret = [kind |-> "return", isNone |-> FALSE, value |-> <<>>]

\* C15 witness: a load that a merge error ended, then compare_config,
\* commit_config, rollback have sent their commands, and a second
\* rollback would send nothing.
C15_Witness ==
    /\ Len(history) = 4
    /\ [i \in 1..4 |-> history[i].call]
         = <<"load_merge_candidate", "compare_config", "commit_config", "rollback">>
    /\ Len(sent) = 5
    /\ sent[2].command = "net add bogus"
    /\ FixedCommands(sent) = <<"net pending", "net commit", "net rollback last">>
    /\ ~loaded
    /\ ~changed

====